---- MODULE Spec2Model ----
(***************************************************************************)
(* lazycat (src/src/main.rs): a terminal file browser.  The model covers   *)
(* the App state machine (current_dir, entries, selected, preview_lines),  *)
(* the filesystem it reads, and the control flow of main around it.        *)
(*                                                                         *)
(* File names are byte sequences, paths are sequences of names (the root   *)
(* is the empty path), `selected` is 0-based as in the source.             *)
(***************************************************************************)
EXTENDS Naturals, Sequences, FiniteSets

VARIABLES fs, fs_changes, pc, exit, raw_mode, alt_screen, app, last, prev

vars == <<fs, fs_changes, pc, exit, raw_mode, alt_screen, app, last, prev>>

----------------------------------------------------------------------------
(* Bounds of the model *)

\* longest path of the filesystem universe, in components
MaxDepth == 2
\* number of filesystem objects (besides the root) that exist initially
MaxNodes == 4
\* number of changes other processes make to the filesystem during a run
MaxFsChanges == 1

----------------------------------------------------------------------------
(* The filesystem *)

\* entry names "A", "a", "ab", as bytes
Names == { <<65>>, <<97>>, <<97, 98>> }

Root == << >>

RECURSIVE PathsUpTo(_)
PathsUpTo(n) ==
    IF n = 0 THEN {Root}
    ELSE LET shorter == PathsUpTo(n - 1)
         IN  shorter \cup {Append(p, nm) : p \in {q \in shorter : Len(q) = n - 1}, nm \in Names}

Paths == PathsUpTo(MaxDepth)

\* "dir": listable directory; "xdir": directory whose listing fails;
\* "file": file readable as UTF-8 text; "bin": file read_to_string fails on;
\* "none": no such object
Kinds == {"none", "dir", "xdir", "file", "bin"}

\* Path::parent(): None for the root, else the path without its last component
HasParent(p) == Len(p) > 0
Parent(p) == SubSeq(p, 1, Len(p) - 1)

\* DirEntry::file_name()
FileName(p) == p[Len(p)]

\* Path::is_dir(): stats the path anew on every call
is_dir(f, p) == f[p] \in {"dir", "xdir"}

\* fs::read_dir(d) returns Ok
read_dir_ok(f, d) == f[d] = "dir"

\* the DirEntry paths fs::read_dir(d) yields: d joined with each child's name
read_dir(f, d) ==
    IF Len(d) < MaxDepth
    THEN {p \in {Append(d, nm) : nm \in Names} : f[p] # "none"}
    ELSE {}

\* Ord for OsString / String: bytewise lexicographic
NameCmp(a, b) ==
    LET n == IF Len(a) < Len(b) THEN Len(a) ELSE Len(b)
        diff == {i \in 1..n : a[i] # b[i]}
    IN  IF diff = {}
        THEN IF Len(a) < Len(b) THEN "Less"
             ELSE IF Len(a) > Len(b) THEN "Greater" ELSE "Equal"
        ELSE LET i == CHOOSE j \in diff : \A k \in diff : j <= k
             IN  IF a[i] < b[i] THEN "Less" ELSE "Greater"

----------------------------------------------------------------------------
(* App::refresh_entries and App::update_preview *)

EntryCmpByNameOnly(f, a, b) == NameCmp(FileName(a), FileName(b))

\* the comparator closure handed to entries.sort_by
EntryCmp(f, a, b) ==
    LET a_is_dir == is_dir(f, a)
        b_is_dir == is_dir(f, b)
    IN  IF a_is_dir /\ ~b_is_dir THEN "Less"
        ELSE IF ~a_is_dir /\ b_is_dir THEN "Greater"
        ELSE NameCmp(FileName(a), FileName(b))

\* Vec::sort_by(EntryCmp) applied to the entries read_dir yielded, in whatever
\* order it yielded them: names within one directory are distinct, so the
\* comparator is a strict total order and the result is unique
RECURSIVE SortEntries(_, _)
SortEntries(f, S) ==
    IF S = {} THEN << >>
    ELSE LET m == CHOOSE x \in S : \A y \in S \ {x} : EntryCmp(f, x, y) # "Greater"
         IN  <<m>> \o SortEntries(f, S \ {m})

RECURSIVE SortItemsDescending(_)
SortItemsDescending(S) ==
    IF S = {} THEN << >>
    ELSE LET m == CHOOSE x \in S : \A y \in S \ {x} : NameCmp(FileName(x), FileName(y)) # "Less"
         IN  <<m>> \o SortItemsDescending(S \ {m})

\* items.sort_by(|a, b| a.0.cmp(&b.0)) in update_preview: by name alone
RECURSIVE SortItems(_)
SortItems(S) ==
    IF S = {} THEN << >>
    ELSE LET m == CHOOSE x \in S : \A y \in S \ {x} : NameCmp(FileName(x), FileName(y)) # "Greater"
         IN  <<m>> \o SortItems(S \ {m})

\* one Line of the preview pane: its text (bytes), its foreground colour, and,
\* for the two fixed messages, the message
ItemLine(f, p) ==
    IF is_dir(f, p)
    THEN [text |-> Append(FileName(p), 47), fg |-> "Blue", msg |-> ""]
    ELSE [text |-> FileName(p), fg |-> "Default", msg |-> ""]

CannotReadLine == [text |-> << >>, fg |-> "Default", msg |-> "Cannot read directory: "]

BinaryLine == [text |-> << >>, fg |-> "Default", msg |-> "[Binary file or cannot read]"]

\* content.chars().take(50000)
PreviewChars == 50000

\* the text every readable file holds: "h\ni"
FileContent == <<104, 10, 105>>

Truncated(content) ==
    SubSeq(content, 1, IF Len(content) < PreviewChars THEN Len(content) ELSE PreviewChars)

\* LinesWithEndings::from(content): cut after every newline (byte 10)
RECURSIVE LinesWithEndings(_)
LinesWithEndings(content) ==
    IF content = << >> THEN << >>
    ELSE LET nl == {i \in 1..Len(content) : content[i] = 10}
             cut == IF nl = {} THEN Len(content)
                    ELSE CHOOSE i \in nl : \A j \in nl : i <= j
         IN  <<SubSeq(content, 1, cut)>> \o LinesWithEndings(SubSeq(content, cut + 1, Len(content)))

\* App::highlight_content: one Line per source line
highlight_content(content) ==
    LET ls == LinesWithEndings(content)
    IN  [i \in 1..Len(ls) |-> [text |-> ls[i], fg |-> "Syntax", msg |-> ""]]

update_preview_blank_when_unreadable(f, a) ==
    IF a.selected < Len(a.entries)
    THEN LET path == a.entries[a.selected + 1]
             lines ==
                 IF is_dir(f, path)
                 THEN IF read_dir_ok(f, path)
                      THEN LET items == SortItems(read_dir(f, path))
                           IN  [i \in 1..Len(items) |-> ItemLine(f, items[i])]
                      ELSE <<CannotReadLine>>
                 ELSE IF f[path] = "file"
                      THEN highlight_content(Truncated(FileContent))
                      ELSE << >>
         IN  [a EXCEPT !.preview_lines = lines, !.preview_of = {path}]
    ELSE [a EXCEPT !.preview_lines = << >>, !.preview_of = {}]

\* App::update_preview.  preview_of records the path the preview was built
\* from: {} when the preview was cleared, else {path}.
update_preview(f, a) ==
    IF a.selected < Len(a.entries)
    THEN LET path == a.entries[a.selected + 1]
             lines ==
                 IF is_dir(f, path)
                 THEN IF read_dir_ok(f, path)
                      THEN LET items == SortItems(read_dir(f, path))
                           IN  [i \in 1..Len(items) |-> ItemLine(f, items[i])]
                      ELSE <<CannotReadLine>>
                 ELSE IF f[path] = "file"
                      THEN highlight_content(Truncated(FileContent))
                      ELSE <<BinaryLine>>
         IN  [a EXCEPT !.preview_lines = lines, !.preview_of = {path}]
    ELSE [a EXCEPT !.preview_lines = << >>, !.preview_of = {}]

\* usize::saturating_sub
saturating_sub(x, y) == IF x >= y THEN x - y ELSE 0

ClampOffByOne(sel, len) == IF sel > len THEN saturating_sub(len, 1) ELSE sel

\* the clamp of refresh_entries
Clamp(sel, len) == IF sel >= len THEN saturating_sub(len, 1) ELSE sel

\* App::refresh_entries.  The `?` on fs::read_dir returns before anything is
\* assigned, so a failed refresh leaves every field as it was.
refresh_entries(f, a) ==
    IF ~read_dir_ok(f, a.current_dir)
    THEN [res |-> "err", app |-> a]
    ELSE LET sorted == SortEntries(f, read_dir(f, a.current_dir))
             a1 == [a EXCEPT !.entries = sorted,
                             !.selected = Clamp(a.selected, Len(sorted))]
         IN  [res |-> "ok", app |-> update_preview(f, a1)]

----------------------------------------------------------------------------
(* The commands of App *)

move_up_wrapping(f, a) ==
    IF a.selected > 0
    THEN update_preview(f, [a EXCEPT !.selected = a.selected - 1])
    ELSE update_preview(f, [a EXCEPT !.selected = saturating_sub(Len(a.entries), 1)])

\* App::move_up
move_up(f, a) ==
    IF a.selected > 0
    THEN update_preview(f, [a EXCEPT !.selected = a.selected - 1])
    ELSE a

move_down_unchecked(f, a) ==
    update_preview(f, [a EXCEPT !.selected = a.selected + 1])

\* App::move_down
move_down(f, a) ==
    IF a.selected + 1 < Len(a.entries)
    THEN update_preview(f, [a EXCEPT !.selected = a.selected + 1])
    ELSE a

enter_any_entry(f, a) ==
    IF a.selected < Len(a.entries)
    THEN refresh_entries(f, [a EXCEPT !.current_dir = a.entries[a.selected + 1],
                                      !.selected = 0])
    ELSE [res |-> "ok", app |-> a]

enter_keeping_selected(f, a) ==
    IF a.selected < Len(a.entries) /\ is_dir(f, a.entries[a.selected + 1])
    THEN refresh_entries(f, [a EXCEPT !.current_dir = a.entries[a.selected + 1]])
    ELSE [res |-> "ok", app |-> a]

\* App::enter_directory: current_dir and selected are assigned before the
\* refresh, whose error is passed on with `?`
enter_directory(f, a) ==
    IF a.selected < Len(a.entries) /\ is_dir(f, a.entries[a.selected + 1])
    THEN refresh_entries(f, [a EXCEPT !.current_dir = a.entries[a.selected + 1],
                                      !.selected = 0])
    ELSE [res |-> "ok", app |-> a]

\* entries.iter().position(|e| e.path() == old_dir), 0-based; only used when
\* old_dir is among the entries
Position(ents, old_dir) ==
    (CHOOSE i \in 1..Len(ents) : ents[i] = old_dir /\ \A j \in 1..(i - 1) : ents[j] # old_dir) - 1

go_parent_without_search(f, a) ==
    IF HasParent(a.current_dir)
    THEN refresh_entries(f, [a EXCEPT !.current_dir = Parent(a.current_dir)])
    ELSE [res |-> "ok", app |-> a]

go_parent_from_root_too(f, a) ==
    refresh_entries(f, [a EXCEPT !.current_dir = Parent(a.current_dir)])

go_parent_select_last_when_missing(f, a) ==
    IF HasParent(a.current_dir)
    THEN LET old_dir == a.current_dir
             r == refresh_entries(f, [a EXCEPT !.current_dir = Parent(old_dir)])
         IN  IF r.res = "err" THEN r
             ELSE IF \E i \in 1..Len(r.app.entries) : r.app.entries[i] = old_dir
                  THEN [res |-> "ok",
                        app |-> update_preview(f, [r.app EXCEPT !.selected = Position(r.app.entries, old_dir)])]
                  ELSE [res |-> "ok",
                        app |-> update_preview(f, [r.app EXCEPT !.selected = saturating_sub(Len(r.app.entries), 1)])]
    ELSE [res |-> "ok", app |-> a]

go_parent_to_root(f, a) ==
    IF HasParent(a.current_dir)
    THEN refresh_entries(f, [a EXCEPT !.current_dir = Root])
    ELSE [res |-> "ok", app |-> a]

\* App::go_parent
go_parent(f, a) ==
    IF HasParent(a.current_dir)
    THEN LET old_dir == a.current_dir
             r == refresh_entries(f, [a EXCEPT !.current_dir = Parent(old_dir)])
         IN  IF r.res = "err" THEN r
             ELSE IF \E i \in 1..Len(r.app.entries) : r.app.entries[i] = old_dir
                  THEN [res |-> "ok",
                        app |-> update_preview(f, [r.app EXCEPT !.selected = Position(r.app.entries, old_dir)])]
                  ELSE r
    ELSE [res |-> "ok", app |-> a]

\* the fields of App before App::new has built it
NoApp == [current_dir |-> Root, entries |-> << >>, selected |-> 0,
          preview_lines |-> << >>, preview_of |-> {}]

\* what env::current_dir() can return: Ok(a directory of the filesystem), or
\* Err when the working directory has been removed
WorkingDirs(f) == {{p} : p \in {q \in Paths : is_dir(f, q)}} \cup { {} }

\* App::new, wd being what env::current_dir() returned ({} for Err)
new(f, wd) ==
    IF wd = {}
    THEN [res |-> "err", app |-> NoApp]
    ELSE LET r == refresh_entries(f, [NoApp EXCEPT !.current_dir = CHOOSE p \in wd : TRUE])
         IN  IF r.res = "err" THEN [res |-> "err", app |-> NoApp] ELSE r

----------------------------------------------------------------------------
(* The states the filesystem can start in *)

\* the sets of at most n paths below the root that are closed under Parent
RECURSIVE Shapes(_)
Shapes(n) ==
    IF n = 0 THEN { {} }
    ELSE LET smaller == Shapes(n - 1)
         IN  smaller \cup
             UNION { { s \cup {Append(p, nm)} :
                         p \in {q \in s \cup {Root} : Len(q) < MaxDepth}, nm \in Names }
                     : s \in smaller }

\* a filesystem: the root is a directory, the paths of `shape` exist with the
\* kinds k gives them, and only directories have children.  Everything is
\* readable at first; Chmod takes permissions away.
TreeOf(shape, k) ==
    [p \in Paths |-> IF p = Root THEN "dir" ELSE IF p \in shape THEN k[p] ELSE "none"]

InitTrees ==
    UNION { { TreeOf(s, k) :
                k \in { kk \in [s -> {"dir", "file"}] :
                          \A p \in s : Parent(p) # Root => kk[Parent(p)] = "dir" } }
            : s \in Shapes(MaxNodes) }

Descends(p, q) == Len(q) >= Len(p) /\ SubSeq(q, 1, Len(p)) = p

----------------------------------------------------------------------------
(* Input events and the key dispatch of main *)

KeyCodes == {"q", "Esc", "j", "Down", "k", "Up", "l", "Right", "Enter", "h", "Left", "x"}

\* what event::read() can return: key events of either kind, and other events
Events ==
    [type : {"Key"}, kind : {"Press"}, code : KeyCodes]
        \cup [type : {"Key"}, kind : {"Release"}, code : {"q", "j"}]
        \cup {[type |-> "Resize", kind |-> "", code |-> ""]}

CommandOfAnyKeyEvent(ev) ==
    IF ev.type # "Key" THEN "Ignore"
    ELSE IF ev.code \in {"q", "Esc"} THEN "Quit"
    ELSE IF ev.code \in {"j", "Down"} THEN "MoveDown"
    ELSE IF ev.code \in {"k", "Up"} THEN "MoveUp"
    ELSE IF ev.code \in {"l", "Right", "Enter"} THEN "Enter"
    ELSE IF ev.code \in {"h", "Left"} THEN "GoParent"
    ELSE "Ignore"

\* the match on key.code, behind the tests for Event::Key and KeyEventKind::Press
Command(ev) ==
    IF ev.type # "Key" \/ ev.kind # "Press" THEN "Ignore"
    ELSE IF ev.code \in {"q", "Esc"} THEN "Quit"
    ELSE IF ev.code \in {"j", "Down"} THEN "MoveDown"
    ELSE IF ev.code \in {"k", "Up"} THEN "MoveUp"
    ELSE IF ev.code \in {"l", "Right", "Enter"} THEN "Enter"
    ELSE IF ev.code \in {"h", "Left"} THEN "GoParent"
    ELSE "Ignore"

\* what a command does to App, and the io::Result it hands to main
Apply(cmd, f, a) ==
    IF cmd = "MoveDown" THEN [res |-> "ok", app |-> move_down(f, a)]
    ELSE IF cmd = "MoveUp" THEN [res |-> "ok", app |-> move_up(f, a)]
    ELSE IF cmd = "Enter" THEN enter_directory(f, a)
    ELSE IF cmd = "GoParent" THEN go_parent(f, a)
    ELSE [res |-> "ok", app |-> a]

----------------------------------------------------------------------------
(* The state machine *)

\* last: the latest command main dispatched, its result, App as it was before
\* it, and the number of filesystem changes that had happened by then.
\* prev: {P} when the command before that one was an Enter that went from
\* directory P into one of its subdirectories, else {}.
NoLast == [op |-> "None", res |-> "ok", pre |-> NoApp, at |-> 0]
NoPrev == {}

Init ==
    /\ fs \in InitTrees
    /\ fs_changes = 0
    /\ pc = "raw"
    /\ exit = "none"
    /\ raw_mode = FALSE
    /\ alt_screen = FALSE
    /\ app = NoApp
    /\ last = NoLast
    /\ prev = NoPrev

\* main returns the io::Error a `?` passed on and the process ends; App, if it
\* was built, is dropped
Fail ==
    /\ pc' = "done" /\ exit' = "err"
    /\ app' = NoApp /\ last' = NoLast /\ prev' = NoPrev

\* the filesystem changes while the program may still read it: just before
\* App::new, or during the event loop
MayChange ==
    /\ fs_changes < MaxFsChanges
    /\ pc \in {"new", "loop"}

\* another process removes p and everything below it
Remove(p) ==
    /\ MayChange
    /\ p # Root /\ fs[p] # "none"
    /\ fs' = [q \in Paths |-> IF Descends(p, q) THEN "none" ELSE fs[q]]
    /\ fs_changes' = fs_changes + 1
    /\ UNCHANGED <<pc, exit, raw_mode, alt_screen, app, last, prev>>

\* another process takes away or gives back the permission to read p
Chmod(p) ==
    /\ MayChange
    /\ fs[p] # "none"
    /\ fs' = [fs EXCEPT ![p] = IF fs[p] = "dir" THEN "xdir"
                               ELSE IF fs[p] = "xdir" THEN "dir"
                               ELSE IF fs[p] = "file" THEN "bin" ELSE "file"]
    /\ fs_changes' = fs_changes + 1
    /\ UNCHANGED <<pc, exit, raw_mode, alt_screen, app, last, prev>>

\* enable_raw_mode()?
EnableRawMode ==
    /\ pc = "raw"
    /\ \/ raw_mode' = TRUE /\ pc' = "alt" /\ UNCHANGED <<exit, app, last, prev>>
       \/ Fail /\ UNCHANGED raw_mode
    /\ UNCHANGED <<fs, fs_changes, alt_screen>>

\* stdout().execute(EnterAlternateScreen)?
EnterAlternateScreen ==
    /\ pc = "alt"
    /\ \/ alt_screen' = TRUE /\ pc' = "term" /\ UNCHANGED <<exit, app, last, prev>>
       \/ Fail /\ UNCHANGED alt_screen
    /\ UNCHANGED <<fs, fs_changes, raw_mode>>

\* Terminal::new(backend)?
TerminalNew ==
    /\ pc = "term"
    /\ \/ pc' = "new" /\ UNCHANGED <<exit, app, last, prev>>
       \/ Fail
    /\ UNCHANGED <<fs, fs_changes, raw_mode, alt_screen>>

\* let mut app = App::new()?  On Err no App exists: main is at the `?` with the
\* error in hand (pc = "failed").
AppNew ==
    /\ pc = "new"
    /\ \E wd \in WorkingDirs(fs) :
       LET r == new(fs, wd)
       IN  /\ app' = r.app
           /\ last' = [op |-> "New", res |-> r.res, pre |-> app, at |-> fs_changes]
           /\ pc' = IF r.res = "ok" THEN "loop" ELSE "failed"
    /\ UNCHANGED <<fs, fs_changes, exit, raw_mode, alt_screen, prev>>

\* terminal.draw(..)? fails
DrawError ==
    /\ pc = "loop"
    /\ Fail
    /\ UNCHANGED <<fs, fs_changes, raw_mode, alt_screen>>

\* the frame is drawn, then event::poll(100ms)? or event::read()? fails
PollError ==
    /\ pc = "loop"
    /\ Fail
    /\ UNCHANGED <<fs, fs_changes, raw_mode, alt_screen>>

\* the frame is drawn and event::poll returns false after 100ms: the loop goes
\* round with nothing changed
PollTimeout ==
    /\ pc = "loop"
    /\ UNCHANGED vars

\* the frame is drawn, an event is read and the match dispatches it.  After
\* `break` App is not used again and the model forgets it; a command that returns Err leaves main at its `?` (pc = "failed"), App as the
\* command left it.
HandleEvent(ev) ==
    /\ pc = "loop"
    /\ LET cmd == Command(ev)
           r == Apply(cmd, fs, app)
       IN  IF cmd = "Quit"
           THEN /\ pc' = "disable"
                /\ app' = NoApp
                /\ last' = [op |-> "Quit", res |-> "ok", pre |-> NoApp, at |-> 0]
                /\ prev' = NoPrev
           ELSE /\ app' = r.app
                /\ last' = [op |-> cmd, res |-> r.res, pre |-> app, at |-> fs_changes]
                /\ prev' = IF last.op = "Enter" /\ last.res = "ok"
                                /\ last.pre.current_dir # app.current_dir
                            THEN {last.pre.current_dir} ELSE {}
                /\ pc' = IF r.res = "ok" THEN "loop" ELSE "failed"
    /\ UNCHANGED <<fs, fs_changes, exit, raw_mode, alt_screen>>

\* the `?` after App::new, enter_directory or go_parent returns the error from
\* main
ReturnErr ==
    /\ pc = "failed"
    /\ Fail
    /\ UNCHANGED <<fs, fs_changes, raw_mode, alt_screen>>

\* disable_raw_mode()?
DisableRawMode ==
    /\ pc = "disable"
    /\ \/ raw_mode' = FALSE /\ pc' = "leave" /\ UNCHANGED <<exit, app, last, prev>>
       \/ Fail /\ UNCHANGED raw_mode
    /\ UNCHANGED <<fs, fs_changes, alt_screen>>

\* stdout().execute(LeaveAlternateScreen)?; Ok(())
LeaveAlternateScreen ==
    /\ pc = "leave"
    /\ \/ alt_screen' = FALSE /\ pc' = "done" /\ exit' = "ok" /\ UNCHANGED <<app, last, prev>>
       \/ Fail /\ UNCHANGED alt_screen
    /\ UNCHANGED <<fs, fs_changes, raw_mode>>

Next ==
    \/ \E p \in Paths : Remove(p)
    \/ \E p \in Paths : Chmod(p)
    \/ EnableRawMode
    \/ EnterAlternateScreen
    \/ TerminalNew
    \/ AppNew
    \/ DrawError
    \/ PollError
    \/ PollTimeout
    \/ \E ev \in Events : HandleEvent(ev)
    \/ ReturnErr
    \/ DisableRawMode
    \/ LeaveAlternateScreen

Spec == Init /\ [][Next]_vars

----------------------------------------------------------------------------
(* Properties *)

\* the entry entries.get(selected) yields, as a set: {} for None
Selected(a) == IF a.selected < Len(a.entries) THEN {a.entries[a.selected + 1]} ELSE {}

\* the filesystem is as the latest command saw it
Fresh == last.at = fs_changes

\* the latest command has returned and main has not acted on its result yet
Returned(op) == last.op = op /\ pc \in {"loop", "failed"}

\* the latest command ran refresh_entries to its end
Refreshed ==
    /\ last.res = "ok"
    /\ \/ Returned("New")
       \/ Returned("Enter") /\ app.current_dir # last.pre.current_dir
       \/ Returned("GoParent") /\ app.current_dir # last.pre.current_dir

\* C1: selected is an index of entries, or entries is empty, in every state the
\* program reaches by MoveUp, MoveDown, Enter, GoParent and the refreshes in them.
C1_SelectionBound == app.selected < Len(app.entries) \/ app.entries = << >>

\* a GoParent whose refresh had to clamp selected, into a directory with entries
C1_Witness ==
    /\ Returned("GoParent") /\ last.res = "ok"
    /\ app.entries # << >>
    /\ last.pre.selected >= Len(app.entries)
    /\ app.selected = Len(app.entries) - 1

\* C2: after every command returns, with success or with an error, the preview
\* is the one built from entries[selected] (none when there is no such entry).
C2_PreviewConsistent ==
    (pc \in {"loop", "failed"} /\ last.op \in {"New", "MoveUp", "MoveDown", "Enter", "GoParent"})
        => app.preview_of = Selected(app)

\* C3: an Enter whose directory cannot be listed fails and leaves current_dir,
\* entries and selected as they were.
C3_FailedEnterIntact ==
    (Returned("Enter") /\ last.res = "err")
        => /\ app.current_dir = last.pre.current_dir
           /\ app.entries = last.pre.entries
           /\ app.selected = last.pre.selected

\* C4: when the refresh inside a command fails mid-session, entries becomes
\* empty, the session keeps running, and a GoParent into a listable parent
\* then succeeds.
C4_RefreshFailureDegrades ==
    (last.op \in {"Enter", "GoParent"} /\ last.res = "err" /\ pc # "done")
        => /\ app.entries = << >>
           /\ pc = "loop"
           /\ (HasParent(app.current_dir) /\ read_dir_ok(fs, Parent(app.current_dir)))
                  => go_parent(fs, app).res = "ok"

\* C5: whenever main ends by a clean Quit, a failure of App::new, a draw or
\* poll error or an error of Enter or GoParent, raw mode is off and the
\* alternate screen is left.
C5_TerminalReleased ==
    [][(pc' = "done" /\ (pc \in {"failed", "loop"} \/ exit' = "ok"))
           => (~raw_mode' /\ ~alt_screen')]_vars

\* C6: Enter from P into its subdirectory D followed by GoParent gives
\* current_dir = P again, and when D still exists (and P can be listed)
\* selected is the index of D in entries and the preview is D's preview.
C6_RoundTrip ==
    (Returned("GoParent") /\ prev # {})
        => /\ {app.current_dir} = prev
           /\ (last.res = "ok" /\ Fresh /\ fs[last.pre.current_dir] # "none")
                  => /\ Selected(app) = {last.pre.current_dir}
                     /\ \A i \in 1..Len(app.entries) :
                            app.entries[i] = last.pre.current_dir => i = app.selected + 1
                     /\ app.preview_of = {last.pre.current_dir}
                     /\ app.preview_lines = update_preview(fs, app).preview_lines

\* the round trip came back to a D that is not the first entry of P, from a
\* selection inside D other than D's own index
C6_Witness ==
    /\ Returned("GoParent") /\ last.res = "ok" /\ prev # {} /\ Fresh
    /\ Selected(app) = {last.pre.current_dir}
    /\ app.selected > 0
    /\ last.pre.selected # app.selected

\* C7: after every successful refresh entries holds every child of current_dir,
\* all directories before all files, each group in ascending order of name.
C7_SortedListing ==
    (Refreshed /\ Fresh)
        => /\ {app.entries[i] : i \in 1..Len(app.entries)} = read_dir(fs, app.current_dir)
           /\ Cardinality(read_dir(fs, app.current_dir)) = Len(app.entries)
           /\ \A i, j \in 1..Len(app.entries) :
                  i < j =>
                      /\ is_dir(fs, app.entries[j]) => is_dir(fs, app.entries[i])
                      /\ (is_dir(fs, app.entries[i]) = is_dir(fs, app.entries[j]))
                             => NameCmp(FileName(app.entries[i]), FileName(app.entries[j])) = "Less"

\* the listing [ab/, A, a]: the directory comes first although its name is the
\* greatest, and the files follow in byte order
C7_Witness ==
    /\ Refreshed /\ Fresh
    /\ app.current_dir = Root
    /\ app.entries = << << <<97, 98>> >>, << <<65>> >>, << <<97>> >> >>
    /\ is_dir(fs, << <<97, 98>> >>)

\* C8: MoveUp at 0 and MoveDown at the last index (or with no entries) leave
\* selected alone; otherwise they change it by exactly one.
C8_NoWrap ==
    /\ Returned("MoveUp") =>
           app.selected = IF last.pre.selected = 0 THEN 0 ELSE last.pre.selected - 1
    /\ Returned("MoveDown") =>
           app.selected = IF last.pre.selected + 1 >= Len(last.pre.entries)
                          THEN last.pre.selected ELSE last.pre.selected + 1

\* MoveUp on the first of several entries
C8_Witness ==
    /\ Returned("MoveUp")
    /\ last.pre.selected = 0
    /\ Len(last.pre.entries) >= 2
    /\ app.selected = 0

\* C9: GoParent at the root changes nothing and returns Ok.
C9_GoParentAtRoot ==
    (Returned("GoParent") /\ ~HasParent(last.pre.current_dir))
        => /\ last.res = "ok"
           /\ app.current_dir = last.pre.current_dir
           /\ app.entries = last.pre.entries
           /\ app.selected = last.pre.selected
           /\ app.preview_lines = last.pre.preview_lines

\* GoParent at the root after the root's content has changed
C9_Witness ==
    /\ Returned("GoParent") /\ ~HasParent(last.pre.current_dir)
    /\ Fresh /\ fs_changes > 0
    /\ {app.entries[i] : i \in 1..Len(app.entries)} # read_dir(fs, Root)

\* C10: Enter when the selected entry is not a directory, or when there is no
\* entry, changes nothing and returns Ok.
C10_EnterOnFile ==
    (Returned("Enter") /\ Fresh
         /\ \A p \in Selected(last.pre) : ~is_dir(fs, p))
        => /\ last.res = "ok"
           /\ app.current_dir = last.pre.current_dir
           /\ app.entries = last.pre.entries
           /\ app.selected = last.pre.selected
           /\ app.preview_lines = last.pre.preview_lines

\* Enter on a selected file
C10_Witness ==
    /\ Returned("Enter") /\ Fresh
    /\ \E p \in Selected(last.pre) : fs[p] \in {"file", "bin"}
    /\ app = last.pre

\* C11: once App::new has succeeded, no MoveUp, MoveDown, Enter or GoParent
\* ends the event loop or the process: after each of them main is still in
\* its loop.
C11_NoAbortFromFilesystem ==
    last.op \in {"MoveUp", "MoveDown", "Enter", "GoParent"} => pc = "loop"

\* the sorted listing of directory d, stated without the sort: every child
\* once, directories before files, each group ascending by name
IsSortedListing(f, ents, d) ==
    /\ {ents[i] : i \in 1..Len(ents)} = read_dir(f, d)
    /\ Cardinality(read_dir(f, d)) = Len(ents)
    /\ \A i, j \in 1..Len(ents) :
           i < j =>
               /\ is_dir(f, ents[j]) => is_dir(f, ents[i])
               /\ (is_dir(f, ents[i]) = is_dir(f, ents[j]))
                      => NameCmp(FileName(ents[i]), FileName(ents[j])) = "Less"

\* C12: Enter on a selected listable directory D makes current_dir D and
\* selected 0, entries the sorted listing of D and the preview that of D's
\* first entry (empty when D has none).
C12_EnterOnDirectory ==
    (Returned("Enter") /\ Fresh
         /\ \E d \in Selected(last.pre) : read_dir_ok(fs, d))
        => /\ last.res = "ok"
           /\ {app.current_dir} = Selected(last.pre)
           /\ app.selected = 0
           /\ IsSortedListing(fs, app.entries, app.current_dir)
           /\ app.preview_of = (IF app.entries = << >> THEN {} ELSE {app.entries[1]})
           /\ app.entries = << >> => app.preview_lines = << >>
           /\ app.preview_lines = update_preview(fs, app).preview_lines

\* Enter from the second entry of P into a directory with two entries:
\* selected goes back to 0 although 1 would be an index of the new listing
C12_Witness ==
    /\ Returned("Enter") /\ Fresh /\ last.res = "ok"
    /\ last.pre.selected = 1
    /\ app.current_dir = last.pre.entries[2]
    /\ Len(app.entries) = 2
    /\ app.selected = 0

\* C13: when App::new fails, the terminal has not been put into raw mode or
\* the alternate screen by the time the error is passed on.
C13_StartupFailureNoUi ==
    (last.op = "New" /\ last.res = "err" /\ pc = "failed")
        => (~raw_mode /\ ~alt_screen)

\* the latest command built the preview, from the filesystem as it still is
PreviewRebuilt ==
    /\ Fresh /\ last.res = "ok" /\ pc = "loop"
    /\ \/ Refreshed
       \/ last.op \in {"MoveUp", "MoveDown"} /\ app.selected # last.pre.selected

\* the name a line of a directory preview shows, without the '/' of a directory
LineName(l) ==
    IF l.text # << >> /\ l.text[Len(l.text)] = 47
    THEN SubSeq(l.text, 1, Len(l.text) - 1)
    ELSE l.text

\* C14: the preview of a selected directory that can be listed has one line
\* per child, in ascending order of name alone, a child directory shown with a
\* trailing '/' and a file by its bare name; when the listing fails the
\* preview is the single line "Cannot read directory: <error>".
C14_DirectoryPreview ==
    PreviewRebuilt =>
        \A p \in app.preview_of :
            is_dir(fs, p) =>
                IF read_dir_ok(fs, p)
                THEN /\ Len(app.preview_lines) = Cardinality(read_dir(fs, p))
                     /\ \A i \in 1..Len(app.preview_lines) :
                            /\ app.preview_lines[i].msg = ""
                            /\ \E c \in read_dir(fs, p) :
                                   app.preview_lines[i].text =
                                       IF is_dir(fs, c) THEN FileName(c) \o <<47>> ELSE FileName(c)
                     /\ \A i, j \in 1..Len(app.preview_lines) :
                            i < j => NameCmp(LineName(app.preview_lines[i]),
                                             LineName(app.preview_lines[j])) = "Less"
                ELSE app.preview_lines =
                         <<[text |-> << >>, fg |-> "Default", msg |-> "Cannot read directory: "]>>

\* the preview [A, a/]: the file comes before the directory, by name
C14_Witness ==
    /\ PreviewRebuilt
    /\ app.preview_lines = << [text |-> <<65>>, fg |-> "Default", msg |-> ""],
                              [text |-> <<97, 47>>, fg |-> "Blue", msg |-> ""] >>

\* C15: the preview of a selected file that cannot be read as text is the one
\* line "[Binary file or cannot read]", the command returns Ok and the
\* selection stays on that file, current_dir and entries being what the
\* command otherwise makes them; with no entries the preview is empty.
C15_UnreadableFilePreview ==
    /\ PreviewRebuilt =>
           \A p \in app.preview_of :
               fs[p] \in {"bin", "none"} =>
                   /\ app.preview_lines =
                          <<[text |-> << >>, fg |-> "Default", msg |-> "[Binary file or cannot read]"]>>
                   /\ Selected(app) = {p}
                   /\ last.op \in {"MoveUp", "MoveDown"} =>
                          /\ app.current_dir = last.pre.current_dir
                          /\ app.entries = last.pre.entries
    /\ (pc \in {"loop", "failed"} /\ app.entries = << >>) => app.preview_lines = << >>

\* MoveDown onto a file that has lost its read permission
C15_Witness ==
    /\ PreviewRebuilt /\ last.op = "MoveDown"
    /\ \E p \in Selected(app) : fs[p] = "bin"
    /\ Len(app.preview_lines) = 1

\* an input event that is no press of one of the eleven bound keys
Unrecognized(ev) ==
    \/ ev.type # "Key"
    \/ ev.kind # "Press"
    \/ ev.code \notin {"q", "Esc", "j", "Down", "k", "Up", "l", "Right", "Enter", "h", "Left"}

\* C16: a press of a bound key is dispatched as one of Quit, MoveUp, MoveDown,
\* Enter, GoParent; any other event leaves current_dir, entries, selected and
\* preview_lines as they are, returns no error and leaves main in its loop.
C16_InputMapping ==
    /\ \A ev \in Events :
           IF Unrecognized(ev)
           THEN pc = "loop" =>
                    /\ Apply(Command(ev), fs, app) = [res |-> "ok", app |-> app]
                    /\ Command(ev) # "Quit"
           ELSE Command(ev) \in {"Quit", "MoveUp", "MoveDown", "Enter", "GoParent"}
    /\ last.op = "Ignore" => (app = last.pre /\ last.res = "ok" /\ pc = "loop")

\* an ignored event in a state where MoveDown would have moved the selection
C16_Witness ==
    /\ last.op = "Ignore" /\ Fresh
    /\ app = last.pre
    /\ move_down(fs, app) # app

\* the directories a refresh can be asked to list from the current state
RefreshTargets ==
    {app.current_dir} \cup Selected(app)
        \cup (IF HasParent(app.current_dir) THEN {Parent(app.current_dir)} ELSE {})

\* the latest command was a GoParent that listed the parent and did not find
\* the directory it left there
LeftDirNotFound ==
    /\ Returned("GoParent") /\ last.res = "ok"
    /\ HasParent(last.pre.current_dir)
    /\ \A i \in 1..Len(app.entries) : app.entries[i] # last.pre.current_dir

\* C17: a successful refresh keeps selected when it is still an index of the new
\* entries, sets it to entries.len() - 1 (0 when entries is empty) otherwise,
\* and the preview is the one of the resulting selection.
C17_RefreshClamp ==
    /\ pc = "loop" =>
         \A s \in 0..MaxNodes : \A d \in RefreshTargets :
             LET r == refresh_entries(fs, [app EXCEPT !.selected = s, !.current_dir = d])
                 n == Len(r.app.entries)
             IN  r.res = "ok" =>
                     /\ r.app.selected = (IF s < n THEN s ELSE IF n = 0 THEN 0 ELSE n - 1)
                     /\ r.app.preview_of = Selected(r.app)
                     /\ (n = 0 => r.app.preview_lines = << >>)
    /\ (LeftDirNotFound /\ Fresh) =>
           LET n == Len(app.entries)
               s == last.pre.selected
           IN  /\ app.selected = (IF s < n THEN s ELSE IF n = 0 THEN 0 ELSE n - 1)
               /\ app.preview_of = Selected(app)

\* a refresh that had to clamp: GoParent from a removed directory, where the
\* old selected is past the end of the parent's non-empty listing
C17_Witness ==
    /\ LeftDirNotFound /\ Fresh
    /\ app.entries # << >>
    /\ last.pre.selected >= Len(app.entries)
    /\ app.selected = Len(app.entries) - 1

\* C18: when GoParent lists the parent and the directory it left is not in that
\* listing, current_dir is the parent, entries is the parent's sorted listing,
\* selected is the old selected clamped to the new entries, and the preview is
\* the one of the entry selected.
C18_GoParentLeftDirMissing ==
    (LeftDirNotFound /\ Fresh) =>
        /\ app.current_dir = Parent(last.pre.current_dir)
        /\ IsSortedListing(fs, app.entries, app.current_dir)
        /\ app.selected = (IF last.pre.selected < Len(app.entries) THEN last.pre.selected
                           ELSE saturating_sub(Len(app.entries), 1))
        /\ app.preview_of = Selected(app)
        /\ app.preview_lines = update_preview(fs, app).preview_lines

\* GoParent out of a removed directory into a parent that still lists two
\* entries: the old selected, 0, is kept
C18_Witness ==
    /\ LeftDirNotFound /\ Fresh
    /\ fs[last.pre.current_dir] = "none"
    /\ Len(app.entries) = 2
    /\ app.selected = 0 /\ last.pre.selected = 0
    /\ app.preview_of = {app.entries[1]}

\* C19: whenever a method of App has returned, with Ok or with Err, every
\* element of entries is an immediate child of current_dir.
C19_ListingOfCurrentDir ==
    pc \in {"loop", "failed"} =>
        \A i \in 1..Len(app.entries) :
            /\ HasParent(app.entries[i])
            /\ Parent(app.entries[i]) = app.current_dir

\* n presses of h in a row on the filesystem f, stopping at the first error
RECURSIVE GoParentTimes(_, _, _)
GoParentTimes(f, a, n) ==
    IF n = 0 THEN [res |-> "ok", app |-> a]
    ELSE LET r == GoParentTimes(f, a, n - 1)
         IN  IF r.res = "err" THEN r ELSE go_parent(f, r.app)

\* every proper ancestor of p can be listed
AncestorsReadable(f, p) ==
    \A k \in 0..(Len(p) - 1) : read_dir_ok(f, SubSeq(p, 1, k))

\* C20: a successful GoParent from a non-root directory moves current_dir to
\* its parent, one component shorter; so d presses from depth d, with every
\* ancestor readable, arrive at the root and not earlier, and further presses
\* change nothing.
C20_GoParentBottomsOut ==
    /\ (Returned("GoParent") /\ last.res = "ok" /\ HasParent(last.pre.current_dir)) =>
           /\ app.current_dir = Parent(last.pre.current_dir)
           /\ Len(app.current_dir) = Len(last.pre.current_dir) - 1
    /\ (pc = "loop" /\ AncestorsReadable(fs, app.current_dir)) =>
           LET d == Len(app.current_dir)
               atRoot == GoParentTimes(fs, app, d)
           IN  /\ \A n \in 0..d :
                      /\ GoParentTimes(fs, app, n).res = "ok"
                      /\ Len(GoParentTimes(fs, app, n).app.current_dir) = d - n
               /\ atRoot.app.current_dir = Root
               /\ GoParentTimes(fs, app, d + 1) = atRoot
               /\ GoParentTimes(fs, app, d + 2) = atRoot

\* GoParent from depth 2 has arrived at depth 1, and one more arrives at the root
C20_Witness ==
    /\ Returned("GoParent") /\ last.res = "ok" /\ Fresh
    /\ Len(last.pre.current_dir) = 2
    /\ Len(app.current_dir) = 1
    /\ AncestorsReadable(fs, app.current_dir)
    /\ GoParentTimes(fs, app, 1).app.current_dir = Root
    /\ GoParentTimes(fs, app, 2) = GoParentTimes(fs, app, 1)

====
